---- MODULE Spec2Model ----
(***************************************************************************)
(* Model of the Arduino gas leakage detector (src/main.ino).               *)
(*                                                                         *)
(* One thread of control: the global constructors, setup(), then loop()    *)
(* calling GasLeakageDetector::detectAndRespond() for ever.  Each          *)
(* statement of the sketch is one step; pc names the statement about to    *)
(* run and step/outerI/innerI the position inside the tabulated statement  *)
(* sequences and the for loops.  The analog input is the environment: it   *)
(* may change between any two steps.                                       *)
(***************************************************************************)
EXTENDS Integers, Sequences, FiniteSets, TLC

(***************************************************************************)
(* Program constants                                                       *)
(***************************************************************************)
THRESHOLD == 500

MAX_ANALOG == 1023

LOW == 0

HIGH == 1

\* variant: a buffer one byte too small for a four-digit reading
DISPLAY_BUFFER_SMALL == 16 - 1

DISPLAY_BUFFER == 16

GSM_BUFFER == 30

CTRL_Z == 26

ALERT_REPEATS == 2

\* variant: the inner loop runs one time fewer
ALERT_INNER_SHORT == 5 - 1

ALERT_INNER == 5

SETUP_HOLD == 7000

CYCLE_SLEEP == 1000

ALERT_PAUSE == 1000

(***************************************************************************)
(* Bounds of the model                                                     *)
(***************************************************************************)
MaxCycles == 3

\* calls applied to an arbitrary output state when the Alarm is checked alone
MaxCalls == 3

\* sensor values the environment may present: both sides of the threshold,
\* the threshold itself and the ends of the analog range
Readings == {0, THRESHOLD, THRESHOLD + 1, MAX_ANALOG}

NoLevel == -1

(***************************************************************************)
(* Text formatting: snprintf(buf, size, "Gas Level: %d", level)            *)
(***************************************************************************)
DigitChar == <<"0", "1", "2", "3", "4", "5", "6", "7", "8", "9">>

RECURSIVE NatChars(_)
NatChars(n) ==
    IF n < 10 THEN <<DigitChar[n + 1]>>
    ELSE Append(NatChars(n \div 10), DigitChar[(n % 10) + 1])

\* %d conversion: decimal digits, with a leading minus sign when negative
IntChars(n) == IF n < 0 THEN <<"-">> \o NatChars(0 - n) ELSE NatChars(n)

GasLevelPrefix == <<"G", "a", "s", " ", "L", "e", "v", "e", "l", ":", " ">>

RECURSIVE Join(_)
Join(cs) == IF cs = <<>> THEN "" ELSE Head(cs) \o Join(Tail(cs))

\* the characters snprintf stores: at most size-1 of them, then the terminator
SnprintfChars(size, level) ==
    LET full == GasLevelPrefix \o IntChars(level)
    IN  IF Len(full) > size - 1 THEN SubSeq(full, 1, size - 1) ELSE full

Snprintf(size, level) == Join(SnprintfChars(size, level))

(***************************************************************************)
(* Observable side effects, recorded in the order they are emitted         *)
(***************************************************************************)
Ev(op, s1, s2, n, m) == [op |-> op, s1 |-> s1, s2 |-> s2, n |-> n, m |-> m]

EvRead(v) == Ev("analogRead", "", "", v, 0)

EvLog(text) == Ev("Serial", text, "", 0, 0)

EvLcd(l1, l2) == Ev("lcd", l1, l2, 0, 0)

EvPin(pin, v) == Ev("digitalWrite", pin, "", v, 0)

EvTone(f, d) == Ev("tone", "", "", f, d)

EvNoTone == Ev("noTone", "", "", 0, 0)

EvDelay(ms) == Ev("delay", "", "", ms, 0)

EvGsmLine(text) == Ev("gsm.println", text, "", 0, 0)

EvGsmByte(b) == Ev("gsm.write", "", "", b, 0)

(***************************************************************************)
(* Display                                                                 *)
(***************************************************************************)
BlankLcd == [line1 |-> "", line2 |-> ""]

\* the texts the sketch prints, as characters
DisplayTexts ==
    { <<" ", "G", "a", "s", " ", "L", "e", "a", "k", "a", "g", "e", " ">>,
      <<"D", "e", "t", "e", "c", "t", "o", "r", " ", "A", "l", "a", "r", "m">>,
      <<"G", "a", "s", " ", "S", "c", "a", "n", " ", "i", "s", " ", "O", "N">>,
      <<"G", "a", "s", " ", "L", "e", "v", "e", "l", " ", "E", "x", "c", "e", "e", "d">>,
      <<"S", "M", "S", " ", "S", "e", "n", "t">>,
      <<"G", "a", "s", " ", "L", "e", "v", "e", "l", " ", "N", "o", "r", "m", "a", "l">> }
    \cup {SnprintfChars(DISPLAY_BUFFER, r) : r \in Readings}

\* the characters of a text on the display
Chars(s) == CHOOSE cs \in DisplayTexts : Join(cs) = s

\* lcd.clear(): both rows blank
LcdClear(d) == BlankLcd

\* lcd.setCursor(0, row); lcd.print(text): the text replaces the characters it
\* covers and leaves the rest of the row as it was
LcdPrint(d, row, text) ==
    [d EXCEPT ![row] =
        IF Len(text) >= Len(d[row]) THEN text
        ELSE text \o Join(SubSeq(Chars(d[row]), Len(text) + 1, Len(d[row])))]

\* variant: showMessage does not clear the display first
ShowMessageNoClear(d, line1, line2) ==
    LET first == LcdPrint(d, "line1", line1)
    IN  IF line2 # "" THEN LcdPrint(first, "line2", line2) ELSE first

\* Display::showMessage: clear, print line1 on row 0, print line2 on row 1
\* when it is not empty
ShowMessage(d, line1, line2) ==
    LET first == LcdPrint(LcdClear(d), "line1", line1)
    IN  IF line2 # "" THEN LcdPrint(first, "line2", line2) ELSE first

\* Display::showGasLevel: the two lines handed to showMessage
GasLevelLines(level) == <<"Gas Scan is ON", Snprintf(DISPLAY_BUFFER, level)>>

(***************************************************************************)
(* Alarm                                                                   *)
(***************************************************************************)
PinNames == {"buzzer", "red", "green", "relay"}

PinStates == [PinNames -> {LOW, HIGH}]

\* all four pins are outputs and low after the Alarm constructor
InitPins == [p \in PinNames |-> LOW]

DigitalWrite(p, pin, v) == [p EXCEPT ![pin] = v]

\* variant: trigger() leaves the green output as it was
TriggerWritesNoGreen == << <<"red", HIGH>>, <<"relay", HIGH>> >>

\* variant: trigger() pulses the relay: low first, then high
TriggerWritesPulse ==
    << <<"red", HIGH>>, <<"green", LOW>>, <<"relay", LOW>>, <<"relay", HIGH>> >>

\* Alarm::trigger: its digitalWrite calls in program order
TriggerWrites == << <<"red", HIGH>>, <<"green", LOW>>, <<"relay", HIGH>> >>

\* variant: reset() switches every output off before it lights the green one
ResetWritesBlink ==
    << <<"buzzer", LOW>>, <<"red", LOW>>, <<"green", LOW>>, <<"relay", LOW>>,
       <<"green", HIGH>> >>

\* variant: reset() does not drive the red output low
ResetWritesNoRed ==
    << <<"buzzer", LOW>>, <<"green", HIGH>>, <<"relay", LOW>> >>

\* Alarm::reset: its digitalWrite calls in program order
ResetWrites ==
    << <<"buzzer", LOW>>, <<"red", LOW>>, <<"green", HIGH>>, <<"relay", LOW>> >>

RECURSIVE ApplyWrites(_, _)
ApplyWrites(p, ws) ==
    IF ws = <<>> THEN p
    ELSE ApplyWrites(DigitalWrite(p, Head(ws)[1], Head(ws)[2]), Tail(ws))

\* variant: trigger() toggles the green output instead of driving it low
TriggerTogglesGreen(p) ==
    [ApplyWrites(p, TriggerWrites) EXCEPT !["green"] = 1 - p["green"]]

Trigger(p) == ApplyWrites(p, TriggerWrites)

\* variant: reset() does not silence the buzzer output
ResetLeavesBuzzer(p) == ApplyWrites(p, Tail(ResetWrites))

Reset(p) == ApplyWrites(p, ResetWrites)

\* variant: the startup sound lacks its last tone
StartupScheduleShort ==
    << <<"tone", 2000, 150>>, <<"delay", 150, 0>>,
       <<"tone", 2000, 180>>, <<"delay", 150, 0>>,
       <<"tone", 2500, 100>>, <<"delay", 200, 0>> >>

\* Alarm::playStartupSound: tone(f, d) and delay(ms) in program order
StartupSchedule ==
    << <<"tone", 2000, 150>>, <<"delay", 150, 0>>,
       <<"tone", 2000, 180>>, <<"delay", 150, 0>>,
       <<"tone", 2500, 100>>, <<"delay", 200, 0>>,
       <<"tone", 3000, 150>>, <<"delay", 250, 0>> >>

\* Alarm::playAlertSound: the body of the inner for loop
AlertBody ==
    << <<"tone", 2000, 150>>, <<"delay", 100, 0>>,
       <<"tone", 4000, 150>>, <<"delay", 160, 0>>,
       <<"tone", 2500, 150>>, <<"delay", 100, 0>>,
       <<"tone", 4500, 150>>, <<"delay", 160, 0>> >>

\* a tone/delay table entry as the side effect it emits
SoundEvent(e) == IF e[1] = "tone" THEN EvTone(e[2], e[3]) ELSE EvDelay(e[2])

\* frequency on the buzzer line after a table entry has run
SoundFreq(e, freq) == IF e[1] = "tone" THEN e[2] ELSE freq

(***************************************************************************)
(* GSM module                                                              *)
(***************************************************************************)
\* variant: the terminator is written before the body
SendScheduleEarlyTerminator(message, level) ==
    << EvGsmLine("AT+CMGF=1"),
       EvDelay(1000),
       EvGsmLine("AT+CMGS=\"+91xxxxxxxxxx\"\r"),
       EvDelay(1000),
       EvGsmByte(CTRL_Z),
       EvGsmLine(message),
       EvGsmLine(Snprintf(GSM_BUFFER, level)),
       EvDelay(1000) >>

\* variant: the last delay comes before the terminator instead of after it
SendScheduleDelayBeforeTerminator(message, level) ==
    << EvGsmLine("AT+CMGF=1"),
       EvDelay(1000),
       EvGsmLine("AT+CMGS=\"+91xxxxxxxxxx\"\r"),
       EvDelay(1000),
       EvGsmLine(message),
       EvGsmLine(Snprintf(GSM_BUFFER, level)),
       EvDelay(1000),
       EvGsmByte(CTRL_Z) >>

\* GSMModule::sendMessage: its statements in program order
SendSchedule(message, level) ==
    << EvGsmLine("AT+CMGF=1"),
       EvDelay(1000),
       EvGsmLine("AT+CMGS=\"+91xxxxxxxxxx\"\r"),
       EvDelay(1000),
       EvGsmLine(message),
       EvGsmLine(Snprintf(GSM_BUFFER, level)),
       EvGsmByte(CTRL_Z),
       EvDelay(1000) >>

(***************************************************************************)
(* Controller                                                              *)
(***************************************************************************)
\* variant: the comparison is not strict
ExceedsOrEqual(level) == level >= THRESHOLD

\* the condition of the if statement of detectAndRespond
Exceeds(level) == level > THRESHOLD

(***************************************************************************)
(* State                                                                   *)
(***************************************************************************)
VARIABLES
    pc,            \* statement about to run
    step,          \* index into the tabulated statement sequence at pc
    outerI,        \* outer loop counter of playAlertSound
    innerI,        \* inner loop counter of playAlertSound
    sensor,        \* value on the analog input (environment)
    modem,         \* condition of the GSM modem behind mySerial (environment)
    gasLevel,      \* local gasLevel of detectAndRespond (last sample)
    pins,          \* level written to each alarm output
    toneFreq,      \* frequency on the buzzer line, 0 when silent
    lcd,           \* the two display lines
    trace,         \* side effects emitted since the cycle (or setup) began
    cycles,        \* completed cycles
    dangerCycles,  \* cycles that took the Danger branch
    smsSent,       \* notifications terminated with Ctrl+Z
    alertsPlayed,  \* completed playAlertSound calls
    seen           \* cycle observed before the last restart

vars == <<pc, step, outerI, innerI, sensor, modem, gasLevel, pins, toneFreq, lcd,
          trace, cycles, dangerCycles, smsSent, alertsPlayed, seen>>

\* conditions the modem can be in when the sketch starts
ModemStates == {"ready", "absent", "no_network"}

NoCycle == [reading |-> NoLevel, pins |-> InitPins, toneFreq |-> 0,
            lcd |-> BlankLcd, trace |-> <<>>, modem |-> "ready"]

\* state of the sketch when setup() is entered
Boot ==
    /\ pc = "setup_serial"
    /\ step = 0
    /\ outerI = 0
    /\ innerI = 0
    /\ gasLevel = NoLevel
    /\ pins = InitPins
    /\ toneFreq = 0
    /\ lcd = BlankLcd
    /\ trace = <<>>

Init ==
    /\ Boot
    /\ sensor \in Readings
    /\ modem \in ModemStates
    /\ cycles = 0
    /\ dangerCycles = 0
    /\ smsSent = 0
    /\ alertsPlayed = 0
    /\ seen = NoCycle

counters == <<cycles, dangerCycles, smsSent, alertsPlayed, seen>>

loops == <<outerI, innerI>>

Emit(e) == trace' = Append(trace, e)

(***************************************************************************)
(* Environment                                                             *)
(***************************************************************************)
SensorChange ==
    /\ \E v \in Readings \ {sensor} : sensor' = v
    /\ UNCHANGED <<pc, step, outerI, innerI, modem, gasLevel, pins, toneFreq,
                   lcd, trace, counters>>

\* the modem stops responding while sendMessage is writing to it, for good
ModemHang ==
    /\ pc = "send"
    /\ modem = "ready"
    /\ modem' = "hung"
    /\ UNCHANGED <<pc, step, outerI, innerI, sensor, gasLevel, pins, toneFreq,
                   lcd, trace, counters>>

(***************************************************************************)
(* setup()                                                                 *)
(***************************************************************************)
SetupSerial ==
    /\ pc = "setup_serial"
    /\ pc' = "startup_sound"
    /\ step' = 1
    /\ UNCHANGED <<loops, sensor, modem, gasLevel, pins, toneFreq, lcd, trace, counters>>

StartupSound ==
    /\ pc = "startup_sound"
    /\ Emit(SoundEvent(StartupSchedule[step]))
    /\ toneFreq' = SoundFreq(StartupSchedule[step], toneFreq)
    /\ IF step < Len(StartupSchedule)
       THEN pc' = pc /\ step' = step + 1
       ELSE pc' = "startup_notone" /\ step' = 0
    /\ UNCHANGED <<loops, sensor, modem, gasLevel, pins, lcd, counters>>

StartupNoTone ==
    /\ pc = "startup_notone"
    /\ Emit(EvNoTone)
    /\ toneFreq' = 0
    /\ pins' = DigitalWrite(pins, "buzzer", LOW)
    /\ pc' = "setup_welcome"
    /\ UNCHANGED <<step, loops, sensor, modem, gasLevel, lcd, counters>>

SetupWelcome ==
    /\ pc = "setup_welcome"
    /\ lcd' = ShowMessage(lcd, " Gas Leakage ", "Detector Alarm")
    /\ Emit(EvLcd(" Gas Leakage ", "Detector Alarm"))
    /\ pc' = "setup_delay"
    /\ UNCHANGED <<step, loops, sensor, modem, gasLevel, pins, toneFreq, counters>>

SetupDelay ==
    /\ pc = "setup_delay"
    /\ Emit(EvDelay(SETUP_HOLD))
    /\ pc' = "read"
    /\ UNCHANGED <<step, loops, sensor, modem, gasLevel, pins, toneFreq, lcd, counters>>

(***************************************************************************)
(* loop(): GasLeakageDetector::detectAndRespond                            *)
(***************************************************************************)
\* int gasLevel = sensor.readGasLevel();
ReadGasLevel ==
    /\ pc = "read"
    /\ cycles < MaxCycles
    /\ gasLevel' = sensor
    /\ trace' = <<EvRead(sensor)>>
    /\ pc' = "log_level"
    /\ UNCHANGED <<step, loops, sensor, modem, pins, toneFreq, lcd, counters>>

\* variant: the log line is made from a second read of the sensor
LogLevelResample ==
    /\ pc = "log_level"
    /\ Emit(EvLog("Gas Level: " \o Join(IntChars(sensor))))
    /\ pc' = "show_level"
    /\ UNCHANGED <<step, loops, sensor, modem, gasLevel, pins, toneFreq, lcd, counters>>

\* Serial.print("Gas Level: "); Serial.println(gasLevel);
LogLevel ==
    /\ pc = "log_level"
    /\ Emit(EvLog("Gas Level: " \o Join(IntChars(gasLevel))))
    /\ pc' = "show_level"
    /\ UNCHANGED <<step, loops, sensor, modem, gasLevel, pins, toneFreq, lcd, counters>>

\* variant: the sensor is read again for the display
ShowGasLevelResample ==
    /\ pc = "show_level"
    /\ gasLevel' = sensor
    /\ lcd' = ShowMessage(lcd, GasLevelLines(sensor)[1], GasLevelLines(sensor)[2])
    /\ Emit(EvLcd(GasLevelLines(sensor)[1], GasLevelLines(sensor)[2]))
    /\ pc' = "branch"
    /\ UNCHANGED <<step, loops, sensor, modem, pins, toneFreq, counters>>

\* display.showGasLevel(gasLevel);
ShowGasLevel ==
    /\ pc = "show_level"
    /\ lcd' = ShowMessage(lcd, GasLevelLines(gasLevel)[1], GasLevelLines(gasLevel)[2])
    /\ Emit(EvLcd(GasLevelLines(gasLevel)[1], GasLevelLines(gasLevel)[2]))
    /\ pc' = "branch"
    /\ UNCHANGED <<step, loops, sensor, modem, gasLevel, pins, toneFreq, counters>>

\* variant: the Danger branch forgets alarm.trigger()
BranchNoTrigger ==
    /\ pc = "branch"
    /\ IF Exceeds(gasLevel)
       THEN /\ pc' = "send"
            /\ dangerCycles' = dangerCycles + 1
       ELSE /\ pc' = "reset"
            /\ UNCHANGED dangerCycles
    /\ step' = 1
    /\ UNCHANGED <<loops, sensor, modem, gasLevel, pins, toneFreq, lcd, trace,
                   cycles, smsSent, alertsPlayed, seen>>

\* if (gasLevel > threshold) ... else ...
Branch ==
    /\ pc = "branch"
    /\ IF Exceeds(gasLevel)
       THEN /\ pc' = "trigger"
            /\ dangerCycles' = dangerCycles + 1
       ELSE /\ pc' = "reset"
            /\ UNCHANGED dangerCycles
    /\ step' = 1
    /\ UNCHANGED <<loops, sensor, modem, gasLevel, pins, toneFreq, lcd, trace,
                   cycles, smsSent, alertsPlayed, seen>>

\* variant: the notification is sent only when the relay was not yet high
TriggerStepOnEdge ==
    /\ pc = "trigger"
    /\ pins' = DigitalWrite(pins, TriggerWrites[step][1], TriggerWrites[step][2])
    /\ Emit(EvPin(TriggerWrites[step][1], TriggerWrites[step][2]))
    /\ IF step < Len(TriggerWrites)
       THEN pc' = pc /\ step' = step + 1
       ELSE /\ pc' = IF pins["relay"] = HIGH THEN "log_excess" ELSE "send"
            /\ step' = 1
    /\ UNCHANGED <<loops, sensor, modem, gasLevel, toneFreq, lcd, counters>>

\* alarm.trigger(): one digitalWrite per step
TriggerStep ==
    /\ pc = "trigger"
    /\ pins' = DigitalWrite(pins, TriggerWrites[step][1], TriggerWrites[step][2])
    /\ Emit(EvPin(TriggerWrites[step][1], TriggerWrites[step][2]))
    /\ IF step < Len(TriggerWrites)
       THEN pc' = pc /\ step' = step + 1
       ELSE pc' = "send" /\ step' = 1
    /\ UNCHANGED <<loops, sensor, modem, gasLevel, toneFreq, lcd, counters>>

\* variant: sendMessage reports failure and the rest of the branch is skipped
SendMessageStepChecked ==
    /\ pc = "send"
    /\ LET e == SendSchedule("Excess Gas Detected", gasLevel)[step]
       IN  /\ Emit(e)
           /\ smsSent' = IF e = EvGsmByte(CTRL_Z) THEN smsSent + 1 ELSE smsSent
    /\ IF step < Len(SendSchedule("Excess Gas Detected", gasLevel))
       THEN pc' = pc /\ step' = step + 1
       ELSE pc' = (IF modem = "ready" THEN "log_excess" ELSE "cycle_delay")
            /\ step' = 0
    /\ UNCHANGED <<loops, sensor, modem, gasLevel, pins, toneFreq, lcd,
                   cycles, dangerCycles, alertsPlayed, seen>>

\* variant: each write waits until the modem answers
SendMessageStepWaits ==
    /\ pc = "send"
    /\ modem # "hung"
    /\ LET e == SendSchedule("Excess Gas Detected", gasLevel)[step]
       IN  /\ Emit(e)
           /\ smsSent' = IF e = EvGsmByte(CTRL_Z) THEN smsSent + 1 ELSE smsSent
    /\ IF step < Len(SendSchedule("Excess Gas Detected", gasLevel))
       THEN pc' = pc /\ step' = step + 1
       ELSE pc' = "log_excess" /\ step' = 0
    /\ UNCHANGED <<loops, sensor, modem, gasLevel, pins, toneFreq, lcd,
                   cycles, dangerCycles, alertsPlayed, seen>>

\* gsmModule.sendMessage("Excess Gas Detected", gasLevel): one statement per step
SendMessageStep ==
    /\ pc = "send"
    /\ LET e == SendSchedule("Excess Gas Detected", gasLevel)[step]
       IN  /\ Emit(e)
           /\ smsSent' = IF e = EvGsmByte(CTRL_Z) THEN smsSent + 1 ELSE smsSent
    /\ IF step < Len(SendSchedule("Excess Gas Detected", gasLevel))
       THEN pc' = pc /\ step' = step + 1
       ELSE pc' = "log_excess" /\ step' = 0
    /\ UNCHANGED <<loops, sensor, modem, gasLevel, pins, toneFreq, lcd,
                   cycles, dangerCycles, alertsPlayed, seen>>

\* Serial.println("Excess Gas Detected"); then alarm.playAlertSound() is entered
LogExcess ==
    /\ pc = "log_excess"
    /\ Emit(EvLog("Excess Gas Detected"))
    /\ outerI' = 0
    /\ pc' = "alert_outer"
    /\ UNCHANGED <<step, innerI, sensor, modem, gasLevel, pins, toneFreq, lcd, counters>>

\* for (int i = 0; i < 2; i++)
AlertOuter ==
    /\ pc = "alert_outer"
    /\ IF outerI < ALERT_REPEATS
       THEN pc' = "alert_inner" /\ innerI' = 0
       ELSE pc' = "alert_notone" /\ UNCHANGED innerI
    /\ UNCHANGED <<step, outerI, sensor, modem, gasLevel, pins, toneFreq, lcd, trace,
                   counters>>

\* for (int i = 0; i < 5; i++)
AlertInner ==
    /\ pc = "alert_inner"
    /\ IF innerI < ALERT_INNER
       THEN pc' = "alert_body" /\ step' = 1
       ELSE pc' = "alert_pause" /\ step' = 0
    /\ UNCHANGED <<loops, sensor, modem, gasLevel, pins, toneFreq, lcd, trace, counters>>

\* one tone() or delay() of the inner loop body
AlertBodyStep ==
    /\ pc = "alert_body"
    /\ Emit(SoundEvent(AlertBody[step]))
    /\ toneFreq' = SoundFreq(AlertBody[step], toneFreq)
    /\ IF step < Len(AlertBody)
       THEN pc' = pc /\ step' = step + 1 /\ UNCHANGED innerI
       ELSE pc' = "alert_inner" /\ step' = 0 /\ innerI' = innerI + 1
    /\ UNCHANGED <<outerI, sensor, modem, gasLevel, pins, lcd, counters>>

\* delay(1000); at the end of the outer loop body
AlertPause ==
    /\ pc = "alert_pause"
    /\ Emit(EvDelay(ALERT_PAUSE))
    /\ outerI' = outerI + 1
    /\ pc' = "alert_outer"
    /\ UNCHANGED <<step, innerI, sensor, modem, gasLevel, pins, toneFreq, lcd, counters>>

\* noTone(buzzerPin); stops the tone and leaves the line low
AlertNoTone ==
    /\ pc = "alert_notone"
    /\ Emit(EvNoTone)
    /\ toneFreq' = 0
    /\ pins' = DigitalWrite(pins, "buzzer", LOW)
    /\ alertsPlayed' = alertsPlayed + 1
    /\ pc' = "show_exceed"
    /\ UNCHANGED <<step, loops, sensor, modem, gasLevel, lcd,
                   cycles, dangerCycles, smsSent, seen>>

\* variant: the sketch stops after the alarm message until it is reset by hand
ShowExceedHalts ==
    /\ pc = "show_exceed"
    /\ lcd' = ShowMessage(lcd, "Gas Level Exceed", "SMS Sent")
    /\ Emit(EvLcd("Gas Level Exceed", "SMS Sent"))
    /\ pc' = "halted"
    /\ UNCHANGED <<step, loops, sensor, modem, gasLevel, pins, toneFreq, counters>>

\* display.showMessage("Gas Level Exceed", "SMS Sent");
ShowExceed ==
    /\ pc = "show_exceed"
    /\ lcd' = ShowMessage(lcd, "Gas Level Exceed", "SMS Sent")
    /\ Emit(EvLcd("Gas Level Exceed", "SMS Sent"))
    /\ pc' = "cycle_delay"
    /\ UNCHANGED <<step, loops, sensor, modem, gasLevel, pins, toneFreq, counters>>

\* alarm.reset(): one digitalWrite per step
ResetStep ==
    /\ pc = "reset"
    /\ pins' = DigitalWrite(pins, ResetWrites[step][1], ResetWrites[step][2])
    /\ Emit(EvPin(ResetWrites[step][1], ResetWrites[step][2]))
    /\ IF step < Len(ResetWrites)
       THEN pc' = pc /\ step' = step + 1
       ELSE pc' = "log_normal" /\ step' = 0
    /\ UNCHANGED <<loops, sensor, modem, gasLevel, toneFreq, lcd, counters>>

\* Serial.println("Gas Level Normal");
LogNormal ==
    /\ pc = "log_normal"
    /\ Emit(EvLog("Gas Level Normal"))
    /\ pc' = "show_normal"
    /\ UNCHANGED <<step, loops, sensor, modem, gasLevel, pins, toneFreq, lcd, counters>>

\* display.showMessage("Gas Level Normal");  (line2 defaults to "")
ShowNormal ==
    /\ pc = "show_normal"
    /\ lcd' = ShowMessage(lcd, "Gas Level Normal", "")
    /\ Emit(EvLcd("Gas Level Normal", ""))
    /\ pc' = "cycle_delay"
    /\ UNCHANGED <<step, loops, sensor, modem, gasLevel, pins, toneFreq, counters>>

\* delay(1000); detectAndRespond returns and loop() is called again
CycleDelay ==
    /\ pc = "cycle_delay"
    /\ Emit(EvDelay(CYCLE_SLEEP))
    /\ cycles' = cycles + 1
    /\ pc' = "read"
    /\ UNCHANGED <<step, loops, sensor, modem, gasLevel, pins, toneFreq, lcd,
                   dangerCycles, smsSent, alertsPlayed, seen>>

Next ==
    \/ SensorChange
    \/ ModemHang
    \/ SetupSerial
    \/ StartupSound
    \/ StartupNoTone
    \/ SetupWelcome
    \/ SetupDelay
    \/ ReadGasLevel
    \/ LogLevel
    \/ ShowGasLevel
    \/ Branch
    \/ TriggerStep
    \/ SendMessageStep
    \/ LogExcess
    \/ AlertOuter
    \/ AlertInner
    \/ AlertBodyStep
    \/ AlertPause
    \/ AlertNoTone
    \/ ShowExceed
    \/ ResetStep
    \/ LogNormal
    \/ ShowNormal
    \/ CycleDelay

Spec == Init /\ [][Next]_vars

(***************************************************************************)
(* The sketch without an end: loop() is called again for ever.  The counts *)
(* of the observer start afresh when they reach their bound.               *)
(***************************************************************************)
ReadGasLevelAgain ==
    /\ pc = "read"
    /\ cycles = MaxCycles
    /\ gasLevel' = sensor
    /\ trace' = <<EvRead(sensor)>>
    /\ pc' = "log_level"
    /\ cycles' = 0
    /\ dangerCycles' = 0
    /\ smsSent' = 0
    /\ alertsPlayed' = 0
    /\ UNCHANGED <<step, loops, sensor, modem, pins, toneFreq, lcd, seen>>

\* the steps of the single thread of control
Thread ==
    \/ SetupSerial
    \/ StartupSound
    \/ StartupNoTone
    \/ SetupWelcome
    \/ SetupDelay
    \/ ReadGasLevel
    \/ ReadGasLevelAgain
    \/ LogLevel
    \/ ShowGasLevel
    \/ Branch
    \/ TriggerStep
    \/ SendMessageStep
    \/ LogExcess
    \/ AlertOuter
    \/ AlertInner
    \/ AlertBodyStep
    \/ AlertPause
    \/ AlertNoTone
    \/ ShowExceed
    \/ ResetStep
    \/ LogNormal
    \/ ShowNormal
    \/ CycleDelay

LiveNext == Thread \/ SensorChange \/ ModemHang

\* the processor always runs the next statement: the thread is never starved
LiveSpec == Init /\ [][LiveNext]_vars /\ WF_vars(Thread)

(***************************************************************************)
(* Restart: power is cycled between two cycles.  The observer keeps the    *)
(* cycle that had just completed; the sketch starts again from setup().    *)
(***************************************************************************)
CompletedCycle ==
    [reading |-> gasLevel, pins |-> pins, toneFreq |-> toneFreq,
     lcd |-> lcd, trace |-> trace, modem |-> modem]

Restart ==
    /\ pc = "read"
    /\ gasLevel # NoLevel
    /\ seen = NoCycle
    /\ seen' = CompletedCycle
    /\ pc' = "setup_serial"
    /\ step' = 0
    /\ outerI' = 0
    /\ innerI' = 0
    /\ gasLevel' = NoLevel
    /\ pins' = InitPins
    /\ toneFreq' = 0
    /\ lcd' = BlankLcd
    /\ trace' = <<>>
    /\ modem' \in ModemStates
    /\ UNCHANGED <<sensor, cycles, dangerCycles, smsSent, alertsPlayed>>

RestartSpec == Init /\ [][Next \/ Restart]_vars

(***************************************************************************)
(* The Alarm alone: trigger() and reset() called in any order on an        *)
(* arbitrary state of the four outputs.                                    *)
(***************************************************************************)
AlarmInit ==
    /\ pc = "alarm"
    /\ pins \in PinStates
    /\ step = 0
    /\ outerI = 0
    /\ innerI = 0
    /\ sensor = 0
    /\ modem = "ready"
    /\ gasLevel = NoLevel
    /\ toneFreq = 0
    /\ lcd = BlankLcd
    /\ trace = <<>>
    /\ cycles = 0
    /\ dangerCycles = 0
    /\ smsSent = 0
    /\ alertsPlayed = 0
    /\ seen = [NoCycle EXCEPT !.pins = pins]    \* the state the calls start from

CallTrigger ==
    /\ pc = "alarm"
    /\ Len(trace) < MaxCalls
    /\ pins' = Trigger(pins)
    /\ Emit(Ev("trigger", "", "", 0, 0))
    /\ UNCHANGED <<pc, step, loops, sensor, modem, gasLevel, toneFreq, lcd, counters>>

CallReset ==
    /\ pc = "alarm"
    /\ Len(trace) < MaxCalls
    /\ pins' = Reset(pins)
    /\ Emit(Ev("reset", "", "", 0, 0))
    /\ UNCHANGED <<pc, step, loops, sensor, modem, gasLevel, toneFreq, lcd, counters>>

AlarmNext == CallTrigger \/ CallReset

AlarmSpec == AlarmInit /\ [][AlarmNext]_vars

(***************************************************************************)
(* Observations on the recorded side effects                               *)
(***************************************************************************)
\* trace holds the side effects of the current or the just completed cycle
InCycle == pc # "alarm" /\ gasLevel # NoLevel

\* detectAndRespond has returned and the next sample has not been taken
CycleDone == InCycle /\ pc = "read"

IsGsm(e) == e.op \in {"gsm.println", "gsm.write"}

GsmWrites == SelectSeq(trace, IsGsm)

IsToneCall(e) == e.op = "tone"

ToneCalls == SelectSeq(trace, IsToneCall)

IsNoTone(e) == e.op = "noTone"

IsTerminator(e) == e.op = "gsm.write" /\ e.n = 26

IsSound(e) == e.op \in {"tone", "noTone"}

\* position of the first element of seq satisfying Test, 0 when there is none
FirstIndex(seq, Test(_)) ==
    IF \E i \in 1..Len(seq) : Test(seq[i])
    THEN CHOOSE i \in 1..Len(seq) :
            Test(seq[i]) /\ \A j \in 1..(i - 1) : ~Test(seq[j])
    ELSE 0

DangerPins(p) == p["red"] = 1 /\ p["green"] = 0 /\ p["relay"] = 1

SafePins(p) == p["buzzer"] = 0 /\ p["red"] = 0 /\ p["green"] = 1 /\ p["relay"] = 0

(***************************************************************************)
(* C1: when a cycle has completed, it has performed the Danger branch (red *)
(* high, green low, relay high, one notification terminated, alert sound   *)
(* played and silenced, display "Gas Level Exceed"/"SMS Sent") exactly     *)
(* when its reading is strictly greater than 500, and otherwise the Safe   *)
(* branch (buzzer low, red low, green high, relay low, display "Gas Level  *)
(* Normal", nothing written to the modem, no tone).                        *)
(***************************************************************************)
C1_ThresholdBranch ==
    CycleDone =>
        IF gasLevel > 500
        THEN /\ DangerPins(pins)
             /\ Len(SelectSeq(trace, IsTerminator)) = 1
             /\ Len(ToneCalls) > 0
             /\ Len(SelectSeq(trace, IsNoTone)) = 1
             /\ lcd = [line1 |-> "Gas Level Exceed", line2 |-> "SMS Sent"]
        ELSE /\ SafePins(pins)
             /\ GsmWrites = <<>>
             /\ SelectSeq(trace, IsSound) = <<>>
             /\ lcd = [line1 |-> "Gas Level Normal", line2 |-> ""]

\* a run in which reading 501 took the Danger branch and reading 500 the Safe one
C1_Witness ==
    /\ CycleDone
    /\ gasLevel = 501
    /\ cycles = 2
    /\ dangerCycles = 1
    /\ sensor = 500

(***************************************************************************)
(* C2: in a Danger cycle the side effects come in one fixed order: the     *)
(* sample, the reading on the display, the three outputs of trigger(),     *)
(* the modem writes, the alert tones and their silencing, the "Gas Level   *)
(* Exceed"/"SMS Sent" message, the final 1-second sleep.  Red and relay    *)
(* are high whenever anything has been written to the modem.               *)
(***************************************************************************)
Phase(e) ==
    CASE e.op = "analogRead" -> 0
      [] e.op = "lcd" /\ e.s1 = "Gas Scan is ON" -> 1
      [] e.op = "digitalWrite" -> 2
      [] IsGsm(e) -> 3
      [] IsSound(e) -> 4
      [] e.op = "lcd" /\ e.s1 = "Gas Level Exceed" -> 5
      [] OTHER -> 6

\* delays and log lines occur inside several phases and are not ranked
Ranked(e) == e.op \notin {"delay", "Serial"}

C2_DangerOrder ==
    (InCycle /\ gasLevel > 500) =>
        /\ \A i, j \in 1..Len(trace) :
              (i < j /\ Ranked(trace[i]) /\ Ranked(trace[j]))
                 => Phase(trace[i]) <= Phase(trace[j])
        /\ \A i \in 1..Len(trace) : Ranked(trace[i]) => Phase(trace[i]) <= 5
        /\ GsmWrites # <<>> =>
              /\ pins["red"] = 1 /\ pins["relay"] = 1
              /\ Len(SelectSeq(trace, LAMBDA e : e.op = "digitalWrite")) = 3
              /\ \E i \in 1..Len(trace) : Phase(trace[i]) = 1
        /\ CycleDone =>
              /\ trace[Len(trace)] = Ev("delay", "", "", 1000, 0)
              /\ Phase(trace[Len(trace) - 1]) = 5
              /\ {Phase(trace[i]) : i \in 1..Len(trace)} = 0..6

\* a completed Danger cycle
C2_Witness == CycleDone /\ gasLevel = 1023 /\ cycles = 1

(***************************************************************************)
(* C3 (as stated): when playAlertSound has returned it has emitted exactly *)
(* 10 tones and the tone line is silent.                                   *)
(***************************************************************************)
C3_TenTones ==
    (InCycle /\ pc = "show_exceed") => (Len(ToneCalls) = 10 /\ toneFreq = 0)

\* everything emitted since playAlertSound was entered
AlertSegment == SubSeq(trace, FirstIndex(trace, IsSound), Len(trace))

(***************************************************************************)
(* C3 (amended): when playAlertSound has returned it has emitted exactly   *)
(* 40 tones, as 2 repetitions, each closed by a 1-second pause, of 5       *)
(* rounds of the 4-tone pattern 2000, 4000, 2500, 4500 Hz (150 ms each),   *)
(* and has then silenced the tone line, whatever the reading.              *)
(***************************************************************************)
C3_FortyTones ==
    (InCycle /\ pc = "show_exceed") =>
        /\ Len(ToneCalls) = 40
        /\ \A k \in 1..Len(ToneCalls) :
              /\ ToneCalls[k].n = <<2000, 4000, 2500, 4500>>[((k - 1) % 4) + 1]
              /\ ToneCalls[k].m = 150
        /\ Len(AlertSegment) = 83
        /\ {k \in 1..Len(AlertSegment) :
               AlertSegment[k] = Ev("delay", "", "", 1000, 0)} = {41, 82}
        /\ Len(SelectSeq(SubSeq(AlertSegment, 1, 41), IsToneCall)) = 20
        /\ AlertSegment[83].op = "noTone"
        /\ toneFreq = 0
        /\ pins["buzzer"] = 0

\* playAlertSound has just returned in a cycle whose reading is 501
C3_Witness == InCycle /\ pc = "show_exceed" /\ gasLevel = 501

\* the five writes of sendMessage for a reading, the number formatted by
\* ToString
ModemWrites(level) ==
    << Ev("gsm.println", "AT+CMGF=1", "", 0, 0),
       Ev("gsm.println", "AT+CMGS=\"+91xxxxxxxxxx\"\r", "", 0, 0),
       Ev("gsm.println", "Excess Gas Detected", "", 0, 0),
       Ev("gsm.println", "Gas Level: " \o ToString(level), "", 0, 0),
       Ev("gsm.write", "", "", 26, 0) >>

(***************************************************************************)
(* C4: what a cycle has written to the modem is always an initial part of  *)
(* the sequence mode-set command, send command, message text, "Gas Level:  *)
(* N" line, byte 26, and is the whole sequence once sendMessage has        *)
(* returned: nothing is reordered, omitted or repeated.                    *)
(***************************************************************************)
C4_SendSequence ==
    InCycle =>
        /\ Len(GsmWrites) <= 5
        /\ GsmWrites = SubSeq(ModemWrites(gasLevel), 1, Len(GsmWrites))
        /\ pc = "log_excess" => Len(GsmWrites) = 5

\* sendMessage has just returned for the largest reading
C4_Witness == InCycle /\ pc = "log_excess" /\ gasLevel = 1023

\* everything emitted since sendMessage was entered
SendSegment == SubSeq(trace, FirstIndex(trace, IsGsm), Len(trace))

IsSecondDelay(e) == e = Ev("delay", "", "", 1000, 0)

\* a 1-second delay lies strictly between positions a and b of SendSegment
DelayBetween(a, b) ==
    \E k \in (a + 1)..(b - 1) : IsSecondDelay(SendSegment[k])

IsBodyLine(e) == e.op = "gsm.println" /\ e.s1 = "Gas Level: " \o ToString(gasLevel)

(***************************************************************************)
(* C5 (as stated): when sendMessage has returned, a 1-second delay lies    *)
(* between the mode-set command and the send command, between the send     *)
(* command and the body, and between the body and the terminator byte.     *)
(***************************************************************************)
C5_DelayBetweenAllWrites ==
    (InCycle /\ pc = "log_excess") =>
        LET w == {k \in 1..Len(SendSegment) : IsGsm(SendSegment[k])}
            body == FirstIndex(SendSegment, IsBodyLine)
            term == FirstIndex(SendSegment, IsTerminator)
        IN  /\ \A a, b \in w :
                  (a < b /\ b <= body - 1) => DelayBetween(a, b)
            /\ DelayBetween(body, term)

(***************************************************************************)
(* C5 (amended): when sendMessage has returned it has emitted, in order:   *)
(* mode-set command, 1-second delay, send command, 1-second delay, the two *)
(* body lines, the terminator byte immediately after the body with no      *)
(* delay between them, and a 1-second delay after the terminator.          *)
(***************************************************************************)
C5_DelaySchedule ==
    (InCycle /\ pc = "log_excess") =>
        /\ [k \in 1..Len(SendSegment) |-> SendSegment[k].op] =
              <<"gsm.println", "delay", "gsm.println", "delay",
                "gsm.println", "gsm.println", "gsm.write", "delay">>
        /\ \A k \in 1..Len(SendSegment) :
              SendSegment[k].op = "delay" => SendSegment[k].n = 1000
        /\ FirstIndex(SendSegment, IsTerminator) =
              FirstIndex(SendSegment, IsBodyLine) + 1

\* sendMessage has just returned and its last statement was the delay
C5_Witness ==
    /\ InCycle
    /\ pc = "log_excess"
    /\ gasLevel = 501
    /\ trace[Len(trace)] = Ev("delay", "", "", 1000, 0)

\* the calls made so far when the Alarm is checked alone
Calls == [k \in 1..Len(trace) |-> trace[k].op]

(***************************************************************************)
(* C6: from any state s of the four outputs, two calls of trigger() leave  *)
(* the outputs as one call of trigger() on s does, and two calls of        *)
(* reset() leave them as one call of reset() on s does.                    *)
(***************************************************************************)
C6_Idempotent ==
    pc = "alarm" =>
        /\ Calls = <<"trigger", "trigger">> => pins = Trigger(seen.pins)
        /\ Calls = <<"reset", "reset">> => pins = Reset(seen.pins)

\* trigger() has been called twice from a state with every output in the
\* value trigger() does not give it
C6_Witness ==
    /\ pc = "alarm"
    /\ Calls = <<"trigger", "trigger">>
    /\ seen.pins = [buzzer |-> 1, red |-> 0, green |-> 1, relay |-> 0]

(***************************************************************************)
(* C7: from any state of the four outputs, trigger() followed by reset()   *)
(* leaves red low, green high, relay low and buzzer low.                   *)
(***************************************************************************)
C7_ResetAfterTrigger ==
    (pc = "alarm" /\ Len(Calls) >= 2
        /\ Calls[Len(Calls) - 1] = "trigger" /\ Calls[Len(Calls)] = "reset")
    => (pins["red"] = 0 /\ pins["green"] = 1 /\ pins["relay"] = 0
           /\ pins["buzzer"] = 0)

\* trigger() then reset() from a state with the buzzer output high
C7_Witness ==
    /\ pc = "alarm"
    /\ Calls = <<"trigger", "reset">>
    /\ seen.pins["buzzer"] = 1

IsLevelLine(e) == e.op = "gsm.println" /\ e.s1 = "Gas Level: " \o ToString(gasLevel)

(***************************************************************************)
(* C8: a completed cycle has sent exactly one notification, carrying the   *)
(* cycle's reading, when the reading is above 500, and none otherwise; at  *)
(* every cycle boundary the notifications sent and the alert sounds played *)
(* since start both equal the number of Danger cycles.                     *)
(***************************************************************************)
C8_OneNotificationPerDangerCycle ==
    CycleDone =>
        /\ Len(SelectSeq(trace, IsTerminator)) = (IF gasLevel > 500 THEN 1 ELSE 0)
        /\ Len(SelectSeq(trace, IsLevelLine)) = (IF gasLevel > 500 THEN 1 ELSE 0)
        /\ Len(SelectSeq(trace, IsNoTone)) = (IF gasLevel > 500 THEN 1 ELSE 0)
        /\ smsSent = dangerCycles
        /\ alertsPlayed = dangerCycles
        /\ dangerCycles <= cycles

\* two Danger cycles in a row have sent two notifications
C8_Witness ==
    /\ CycleDone
    /\ cycles = 2
    /\ dangerCycles = 2
    /\ smsSent = 2
    /\ alertsPlayed = 2

(***************************************************************************)
(* C9: a cycle completed after a restart and the cycle completed just      *)
(* before the restart, whatever cycles came before either of them, leave   *)
(* the same outputs and display and have emitted the same side effects     *)
(* whenever they had the same reading.                                     *)
(***************************************************************************)
C9_Stateless ==
    (CycleDone /\ seen.reading = gasLevel) =>
        /\ pins = seen.pins
        /\ toneFreq = seen.toneFreq
        /\ lcd = seen.lcd
        /\ trace = seen.trace

\* a Safe cycle that followed a Danger cycle has been compared with a Safe
\* cycle of the other run
C9_Witness ==
    /\ CycleDone
    /\ seen.reading = gasLevel
    /\ gasLevel = 500
    /\ dangerCycles = 1
    /\ cycles = 3

(***************************************************************************)
(* C10: the side effects of a cycle begin with its only sensor read, the   *)
(* reading in use stays the sampled value whatever the sensor does         *)
(* meanwhile, and a sample is taken only when the previous cycle (or       *)
(* setup) has run to its end: an alert sound and a notification complete,  *)
(* the closing message shown and the final sleep done.                     *)
(***************************************************************************)
IsRead(e) == e.op = "analogRead"

RanToCompletion ==
    /\ pc = "read"
    /\ trace[Len(trace)].op = "delay"
    /\ InCycle =>
          /\ trace[Len(trace)].n = 1000
          /\ IF gasLevel > 500
             THEN /\ Len(GsmWrites) = 5
                  /\ Len(ToneCalls) = 40
                  /\ Len(SelectSeq(trace, IsNoTone)) = 1
                  /\ trace[Len(trace) - 1] = Ev("lcd", "Gas Level Exceed", "SMS Sent", 0, 0)
             ELSE trace[Len(trace) - 1] = Ev("lcd", "Gas Level Normal", "", 0, 0)

C10_SampleOncePerCycle ==
    /\ [](InCycle =>
            /\ SelectSeq(trace, IsRead) = <<trace[1]>>
            /\ trace[1].n = gasLevel)
    /\ [][(\/ gasLevel' # gasLevel
           \/ (trace' # trace /\ trace' # <<>> /\ IsRead(trace'[Len(trace')])))
          => (RanToCompletion /\ trace' = <<Ev("analogRead", "", "", sensor, 0)>>)]_vars

\* the sensor has dropped to a safe value while the alert sound of a Danger
\* cycle is playing
C10_Witness ==
    /\ InCycle
    /\ pc = "alert_body"
    /\ gasLevel = 501
    /\ sensor = 0
    /\ outerI = 1

(***************************************************************************)
(* C11: the thread always has a next statement to run (no reachable state  *)
(* is a deadlock or terminal), every sendMessage and every playAlertSound  *)
(* that is entered returns, every started cycle reaches its end, and the   *)
(* sensor is sampled again and again for ever.                             *)
(***************************************************************************)
C11_NeverHalts ==
    /\ [](ENABLED Thread)
    /\ (pc = "send") ~> (pc = "log_excess")
    /\ (pc = "alert_outer") ~> (pc = "show_exceed")
    /\ (pc # "read") ~> (pc = "read")
    /\ []<>(pc = "log_level" /\ Len(trace) = 1)

\* a sample taken after the bound of the cycle count has been passed, all
\* cycles before it having been Danger cycles that ended
C11_Witness ==
    /\ pc = "log_level"
    /\ cycles = 0
    /\ lcd = [line1 |-> "Gas Level Exceed", line2 |-> "SMS Sent"]
    /\ pins["relay"] = 1

(***************************************************************************)
(* C12: a Danger cycle that completes while the modem is absent, without   *)
(* network or hung has written the notification once (no retry), has read  *)
(* nothing back, and ends with red and relay high, green low, the alert    *)
(* sound played and "Gas Level Exceed"/"SMS Sent" on the display; its side *)
(* effects, outputs and display equal those of the Danger cycle with the   *)
(* same reading that completed with a working modem before the restart.    *)
(***************************************************************************)
EmittedOps ==
    {"analogRead", "Serial", "lcd", "digitalWrite", "tone", "noTone", "delay",
     "gsm.println", "gsm.write"}

C12_FireAndForget ==
    (CycleDone /\ gasLevel > 500 /\ modem # "ready") =>
        /\ pins["red"] = 1 /\ pins["relay"] = 1 /\ pins["green"] = 0
        /\ lcd = [line1 |-> "Gas Level Exceed", line2 |-> "SMS Sent"]
        /\ Len(ToneCalls) = 40
        /\ Len(GsmWrites) = 5
        /\ \A k \in 1..Len(trace) : trace[k].op \in EmittedOps
        /\ (seen.reading = gasLevel /\ seen.modem = "ready") =>
              /\ trace = seen.trace
              /\ pins = seen.pins
              /\ lcd = seen.lcd
              /\ toneFreq = seen.toneFreq

\* a Danger cycle during which the modem hung, compared with the cycle of
\* the same reading that a working modem had seen
C12_Witness ==
    /\ CycleDone
    /\ gasLevel = 501
    /\ modem = "hung"
    /\ seen.reading = 501
    /\ seen.modem = "ready"

(***************************************************************************)
(* C13: a Safe cycle ends with green high, red and relay low and "Gas      *)
(* Level Normal" on the display, and no step of a Safe cycle that starts   *)
(* with green high and red and relay low (as a Safe cycle leaves them)     *)
(* changes any of the three, not even for one write.                       *)
(***************************************************************************)
GreenOnly(p) == p["green"] = 1 /\ p["red"] = 0 /\ p["relay"] = 0

C13_GreenStaysOn ==
    /\ []((CycleDone /\ gasLevel <= 500) =>
            (GreenOnly(pins) /\ lcd = [line1 |-> "Gas Level Normal", line2 |-> ""]))
    /\ [][(GreenOnly(pins) /\ pc # "alarm" /\ gasLevel' # -1 /\ gasLevel' <= 500)
             => GreenOnly(pins')]_vars

\* the second of two Safe cycles is about to write the green output, which is
\* already high
C13_Witness ==
    /\ pc = "reset"
    /\ step = 3
    /\ cycles = 1
    /\ dangerCycles = 0
    /\ pins["green"] = 1

(***************************************************************************)
(* C14: when setup() has returned, and before any sensor read, the sketch  *)
(* has emitted exactly: tones (2000 Hz,150 ms), (2000,180), (2500,100),    *)
(* (3000,150), each followed by a delay, noTone, the welcome message       *)
(* " Gas Leakage "/"Detector Alarm" and the 7-second hold; no sample is    *)
(* taken before that, and no cycle ever plays a startup tone or shows the  *)
(* welcome message again.                                                  *)
(***************************************************************************)
SetupStatements ==
    {"setup_serial", "startup_sound", "startup_notone", "setup_welcome",
     "setup_delay"}

C14_StartupOnce ==
    pc # "alarm" =>
        /\ (pc = "read" /\ gasLevel = -1) =>
              /\ trace = << Ev("tone", "", "", 2000, 150), Ev("delay", "", "", 150, 0),
                            Ev("tone", "", "", 2000, 180), Ev("delay", "", "", 150, 0),
                            Ev("tone", "", "", 2500, 100), Ev("delay", "", "", 200, 0),
                            Ev("tone", "", "", 3000, 150), Ev("delay", "", "", 250, 0),
                            Ev("noTone", "", "", 0, 0),
                            Ev("lcd", " Gas Leakage ", "Detector Alarm", 0, 0),
                            Ev("delay", "", "", 7000, 0) >>
              /\ lcd = [line1 |-> " Gas Leakage ", line2 |-> "Detector Alarm"]
              /\ toneFreq = 0
        /\ gasLevel = -1 => (pc \in SetupStatements \/ pc = "read")
        /\ gasLevel = -1 => \A k \in 1..Len(trace) : trace[k].op # "analogRead"
        /\ gasLevel # -1 =>
              /\ pc \notin SetupStatements
              /\ \A k \in 1..Len(trace) :
                    /\ trace[k].op = "lcd" => trace[k].s1 # " Gas Leakage "
                    /\ trace[k].op = "tone" => trace[k].m = 150 /\ trace[k].n # 3000
                    /\ trace[k].op = "delay" => trace[k].n # 7000

\* setup() has returned and the first sample has not been taken
C14_Witness == pc = "read" /\ gasLevel = -1 /\ sensor = 1023 /\ modem = "ready"

(***************************************************************************)
(* C15: a completed cycle has logged exactly two lines: its reading, then  *)
(* "Excess Gas Detected" when the reading is above 500 and "Gas Level      *)
(* Normal" otherwise; the logged reading is the one shown on the display   *)
(* and, in a Danger cycle, the one written to the modem.                   *)
(***************************************************************************)
IsLog(e) == e.op = "Serial"

IsLcd(e) == e.op = "lcd"

C15_DiagnosticLog ==
    CycleDone =>
        /\ SelectSeq(trace, IsLog) =
              << Ev("Serial", "Gas Level: " \o ToString(gasLevel), "", 0, 0),
                 Ev("Serial",
                    IF gasLevel > 500 THEN "Excess Gas Detected"
                    ELSE "Gas Level Normal", "", 0, 0) >>
        /\ SelectSeq(trace, IsLcd)[1].s2 = SelectSeq(trace, IsLog)[1].s1
        /\ gasLevel > 500 =>
              \E k \in 1..Len(trace) :
                 /\ trace[k].op = "gsm.println"
                 /\ trace[k].s1 = SelectSeq(trace, IsLog)[1].s1

\* a completed Danger cycle whose reading is no longer on the sensor
C15_Witness == CycleDone /\ gasLevel = 1023 /\ sensor = 0 /\ cycles = 1

(***************************************************************************)
(* C16: whenever the last thing the sketch did was a showMessage call, the *)
(* display holds exactly the two lines given (the second blank when        *)
(* empty); a completed Safe cycle has shown "Gas Scan is ON"/"Gas Level:   *)
(* r" and then "Gas Level Normal" with a blank second line.                *)
(***************************************************************************)
C16_DisplayOverwritten ==
    pc # "alarm" =>
        /\ (trace # <<>> /\ trace[Len(trace)].op = "lcd") =>
              lcd = [line1 |-> trace[Len(trace)].s1, line2 |-> trace[Len(trace)].s2]
        /\ (CycleDone /\ gasLevel <= 500) =>
              /\ SelectSeq(trace, IsLcd) =
                    << Ev("lcd", "Gas Scan is ON",
                          "Gas Level: " \o ToString(gasLevel), 0, 0),
                       Ev("lcd", "Gas Level Normal", "", 0, 0) >>
              /\ lcd.line1 = "Gas Level Normal"
              /\ lcd.line2 = ""

\* "Gas Level Normal" has just been shown in a Safe cycle that follows a
\* Danger cycle
C16_Witness ==
    /\ pc = "cycle_delay"
    /\ gasLevel = 0
    /\ cycles = 1
    /\ dangerCycles = 1
    /\ lcd.line2 = ""

(***************************************************************************)
(* C17 (as stated): once the modem has stopped responding during           *)
(* sendMessage, the cycle never completes and no further sample is taken.  *)
(***************************************************************************)
C17_HungModemStalls ==
    modem = "hung" => (pc # "read" /\ pc # "log_level")

(***************************************************************************)
(* C17 (amended): sendMessage only writes and sleeps, so no timeout is     *)
(* needed: after the modem has stopped responding during sendMessage, the  *)
(* cycle still completes and a further sensor sample is taken.             *)
(***************************************************************************)
C17_HungModemDoesNotStall ==
    /\ (modem = "hung" /\ pc = "send") ~> (modem = "hung" /\ pc = "log_excess")
    /\ (modem = "hung") ~> (modem = "hung" /\ pc = "read")
    /\ (modem = "hung") ~> (modem = "hung" /\ pc = "log_level" /\ Len(trace) = 1)

\* a sample taken after the modem hung
C17_Witness == modem = "hung" /\ pc = "log_level" /\ gasLevel = 0

(***************************************************************************)
(* C18: at every sample after a completed cycle exactly one of red and     *)
(* green is high, relay equals red, the buzzer is low and silent, and red  *)
(* is high exactly when the reading of the completed cycle was above 500;  *)
(* during startup, until the first sample, red, green and relay are low.   *)
(***************************************************************************)
C18_OutputsAtSample ==
    pc # "alarm" =>
        /\ CycleDone =>
              /\ pins["red"] + pins["green"] = 1
              /\ pins["relay"] = pins["red"]
              /\ pins["buzzer"] = 0
              /\ toneFreq = 0
              /\ (pins["red"] = 1) <=> (gasLevel > 500)
        /\ gasLevel = -1 =>
              (pins["red"] = 0 /\ pins["green"] = 0 /\ pins["relay"] = 0)

\* the sample after a Danger cycle that followed a Safe cycle
C18_Witness ==
    /\ CycleDone
    /\ cycles = 2
    /\ dangerCycles = 1
    /\ gasLevel = 1023
    /\ pins["green"] = 0

(***************************************************************************)
(* C19: red and relay are high from the end of trigger() to the end of a   *)
(* Danger cycle, and the only steps that ever take red or relay from high  *)
(* to low are the writes of reset() in a cycle whose reading is at most    *)
(* 500.                                                                    *)
(***************************************************************************)
BeforeTriggerEnd == {"log_level", "show_level", "branch", "trigger"}

C19_RelayLatched ==
    /\ []((InCycle /\ gasLevel > 500 /\ pc \notin BeforeTriggerEnd) =>
             (pins["relay"] = 1 /\ pins["red"] = 1))
    /\ [][((pins["relay"] = 1 /\ pins'["relay"] = 0)
              \/ (pins["red"] = 1 /\ pins'["red"] = 0))
            => (pc = "reset" /\ gasLevel <= 500 /\ gasLevel # -1)]_vars

\* the relay is still high in the sleep of the second of two Danger cycles
C19_Witness ==
    /\ pc = "cycle_delay"
    /\ cycles = 1
    /\ dangerCycles = 2
    /\ pins["relay"] = 1

(***************************************************************************)
(* C20: every line handed to the display and every line on it is at most   *)
(* 16 characters long; for every reading from 0 to 1023 the formatted      *)
(* "Gas Level: N" text with its terminator fits the 16-byte buffer, so the *)
(* reading line shown in a cycle is the whole text.                        *)
(***************************************************************************)
C20_DisplayLinesFit ==
    pc # "alarm" =>
        /\ Len(lcd.line1) <= 16
        /\ Len(lcd.line2) <= 16
        /\ \A k \in 1..Len(trace) :
              trace[k].op = "lcd" => (Len(trace[k].s1) <= 16 /\ Len(trace[k].s2) <= 16)
        /\ (InCycle /\ Len(trace) >= 3) =>
              /\ trace[3].op = "lcd"
              /\ trace[3].s2 = "Gas Level: " \o ToString(gasLevel)
              /\ Len(trace[3].s2) + 1 <= 16
        /\ pc = "setup_welcome" =>
              \A r \in 0..1023 :
                 /\ Snprintf(DISPLAY_BUFFER, r) = "Gas Level: " \o ToString(r)
                 /\ Len(Snprintf(DISPLAY_BUFFER, r)) + 1 <= 16

\* the longest reading line is on the display
C20_Witness ==
    /\ pc = "branch"
    /\ gasLevel = 1023
    /\ lcd.line2 = "Gas Level: 1023"
    /\ Len(lcd.line2) = 15

====
